---- MODULE Spec2Model ----
(***************************************************************************)
(* Treemap: the weighted tree of tree_data.py (AbstractTree) and the event *)
(* loop of treemap_visualiser.py.                                          *)
(*                                                                         *)
(* Tree objects live in an arena: node i is the i-th AbstractTree that was *)
(* constructed, and root[i], subtrees[i], parent_tree[i], data_size[i],    *)
(* colour[i] are its attributes.  A reference is a node number, None is 0. *)
(***************************************************************************)
EXTENDS Integers, Sequences, FiniteSets, TLC

VARIABLES root, subtrees, parent_tree, data_size, colour,
          tree, treemap, ops, pc, event, selected_leaf

vars == <<root, subtrees, parent_tree, data_size, colour,
          tree, treemap, ops, pc, event, selected_leaf>>

heap == <<root, subtrees, parent_tree, data_size, colour>>

-----------------------------------------------------------------------------
(* Bounds of the model. *)

\* trees of at most this many nodes are constructed
MaxNodes == 4
\* at most this many delete / change_size calls are made
MaxOps == 2
\* generate_treemap is examined on rectangles with sides in 0..MaxSide
MaxSide == 3

\* the data_size arguments leaves are constructed with: the small sizes, and
\* one at which 1 % is a whole number (and from which an increase makes it 2)
LeafSizes == {0, 1, 100}

(***************************************************************************)
(* random.randint(a, b) returns any integer of a .. b.  A colour is three  *)
(* draws of randint(0, 255); every tree draws its own, so that trees may   *)
(* share a colour or differ.  Two of the 2^24 colours are enumerated.      *)
(***************************************************************************)
randint(a, b) == a .. b
Colours == { c \in { <<197, 215, 20>>, <<102, 54, 164>> } :
               \A k \in 1 .. 3 : c[k] \in randint(0, 255) }

\* None as a reference to a tree (nodes are numbered from 1), and None as a
\* root value
None == 0
NoRoot == "None"
Names == {"name"}

Nodes == 1 .. Len(root)

-----------------------------------------------------------------------------
(* Arithmetic. *)

Max(a, b) == IF a >= b THEN a ELSE b

RECURSIVE Pow2(_)
Pow2(n) == IF n <= 0 THEN 1 ELSE 2 * Pow2(n - 1)

\* 2^n mod m
RECURSIVE Pow2Mod(_, _)
Pow2Mod(n, m) == IF n <= 0 THEN 1 % m ELSE (2 * Pow2Mod(n - 1, m)) % m

\* floor(log2(k)) for k >= 1
RECURSIVE Log2(_)
Log2(k) == IF k < 2 THEN 0 ELSE 1 + Log2(k \div 2)

\* the s with 2^(-s) <= c/w < 2^(1-s), for c, w >= 1
RECURSIVE BinExpDown(_, _), BinExpUp(_, _)
BinExpDown(c, w) == IF c >= w THEN 0 ELSE 1 + BinExpDown(2 * c, w)
BinExpUp(c, w) == IF c < 2 * w THEN 0 ELSE 1 + BinExpUp(c, 2 * w)
BinExp(c, w) == IF c >= w THEN 0 - BinExpUp(c, w) ELSE BinExpDown(c, w)

\* the extent rounded up instead of down
FloorRatio_ceiling(c, w, m) == (c * m + w - 1) \div w

(***************************************************************************)
(* math.floor((c / w) * m) as IEEE-754 doubles compute it, for small       *)
(* non-negative integers c, m and w >= 1.  c / w is rounded to 53 bits,    *)
(* the product with m is rounded again, and the result is floored.  When   *)
(* c*m/w is no integer the two roundings cannot cross an integer.  When    *)
(* c*m/w is an integer k, the result is k - 1 exactly when c / w was       *)
(* rounded down (w does not divide c, and the remainder r of c * 2^(52+s)  *)
(* by w is below w/2) and the                                              *)
(* product k - r*m/(w * 2^(52+s)) lies more than half a spacing below k.   *)
(***************************************************************************)
FloorRatio(c, w, m) ==
    IF c = 0 \/ m = 0 THEN 0
    ELSE LET exact == (c * m) \div w
         IN  IF (c * m) % w # 0 THEN exact
             ELSE LET s == BinExp(c, w)
                      r == ((c % w) * Pow2Mod(52 + s, w)) % w
                      e == Log2(exact)
                      thr == IF exact = Pow2(e) THEN e + s - 2 ELSE e + s - 1
                      below == /\ c % w # 0
                               /\ r > 0
                               /\ 2 * r < w
                               /\ 4 * r * m > w * Pow2(thr + 2)
                  IN  IF below THEN exact - 1 ELSE exact

\* the 1 % amount as floor(size * 0.01) + 1
CeilPercent_floor_plus_one(size) == size \div 100 + 1

\* math.ceil(size * 0.01): the double size * 0.01 is a whole number exactly
\* when size is a multiple of 100, so this is the integer ceiling of size/100
CeilPercent(size) == (size + 99) \div 100

-----------------------------------------------------------------------------
(* Sequences. *)

RECURSIVE SortedSeq(_)
SortedSeq(S) ==
    IF S = {} THEN <<>>
    ELSE LET lo == CHOOSE a \in S : \A b \in S : a <= b
         IN  <<lo>> \o SortedSeq(S \ {lo})

RECURSIVE SumSizes(_, _)
SumSizes(ds, subs) ==
    IF subs = <<>> THEN 0 ELSE ds[Head(subs)] + SumSizes(ds, Tail(subs))

Range(s) == { s[i] : i \in 1 .. Len(s) }

-----------------------------------------------------------------------------
(* AbstractTree: queries. *)

is_empty(self) == root[self] = NoRoot

\* the ancestors of a node, nearest first: the parent chain that delete and
\* change_size walk
RECURSIVE Ancestors(_)
Ancestors(self) ==
    IF parent_tree[self] = None THEN {}
    ELSE {parent_tree[self]} \cup Ancestors(parent_tree[self])

\* the for loop of generate_treemap with min(width, height) for the extent
RECURSIVE new_rects_min(_, _, _, _, _, _, _)
new_rects_min(self, rect, i, x, y, w_left, h_left) ==
    IF i > Len(subtrees[self]) THEN <<>>
    ELSE LET t == subtrees[self][i]
             width == rect[3]
             height == rect[4]
             last == i = Len(subtrees[self])
             value == FloorRatio(data_size[t], data_size[self],
                                 IF width <= height THEN width ELSE height)
             new_rect == IF width > height /\ last
                           THEN <<x, y, w_left, height>>
                         ELSE IF width > height
                           THEN <<x, y, value, height>>
                         ELSE IF last
                           THEN <<x, y, width, h_left>>
                         ELSE <<x, y, width, value>>
         IN  IF width > height
               THEN <<new_rect>> \o new_rects_min(self, rect, i + 1, x + value,
                                                  y, w_left - value, h_left)
               ELSE <<new_rect>> \o new_rects_min(self, rect, i + 1, x,
                                                  y + value, w_left,
                                                  h_left - value)

(***************************************************************************)
(* The for loop of generate_treemap: the rectangles new_rect handed to the *)
(* subtrees i .. Len of self, with the cursor at (x, y) and w_left, h_left *)
(* of the extent remaining.  A rectangle is <<x, y, width, height>>.       *)
(***************************************************************************)
RECURSIVE new_rects(_, _, _, _, _, _, _)
new_rects(self, rect, i, x, y, w_left, h_left) ==
    IF i > Len(subtrees[self]) THEN <<>>
    ELSE LET t == subtrees[self][i]
             width == rect[3]
             height == rect[4]
             last == i = Len(subtrees[self])
             value == FloorRatio(data_size[t], data_size[self],
                                 Max(width, height))
             new_rect == IF width > height /\ last
                           THEN <<x, y, w_left, height>>
                         ELSE IF width > height
                           THEN <<x, y, value, height>>
                         ELSE IF last
                           THEN <<x, y, width, h_left>>
                         ELSE <<x, y, width, value>>
         IN  IF width > height
               THEN <<new_rect>> \o new_rects(self, rect, i + 1, x + value, y,
                                              w_left - value, h_left)
               ELSE <<new_rect>> \o new_rects(self, rect, i + 1, x, y + value,
                                              w_left, h_left - value)

\* the rectangle of each subtree of self when self is laid out in rect
subtree_rects(self, rect) ==
    new_rects(self, rect, 1, rect[1], rect[2], rect[3], rect[4])

\* generate_treemap: a sequence of <<rectangle, colour>>
RECURSIVE generate_treemap(_, _), extend_treemaps(_, _, _)
generate_treemap(self, rect) ==
    IF data_size[self] = 0 THEN <<>>
    ELSE IF subtrees[self] = <<>> THEN << <<rect, colour[self]>> >>
    ELSE extend_treemaps(self, subtree_rects(self, rect), 1)

extend_treemaps(self, rects, i) ==
    IF i > Len(subtrees[self]) THEN <<>>
    ELSE generate_treemap(subtrees[self][i], rects[i])
           \o extend_treemaps(self, rects, i + 1)

\* list_leaves without the test for data_size 0 on a leaf
RECURSIVE list_leaves_all(_), extend_leaves_all(_, _)
list_leaves_all(self) ==
    IF subtrees[self] = <<>> THEN <<self>>
    ELSE IF data_size[self] = 0 THEN <<>>
    ELSE extend_leaves_all(self, 1)

extend_leaves_all(self, i) ==
    IF i > Len(subtrees[self]) THEN <<>>
    ELSE list_leaves_all(subtrees[self][i]) \o extend_leaves_all(self, i + 1)

\* list_leaves: a sequence of nodes
RECURSIVE list_leaves(_), extend_leaves(_, _)
list_leaves(self) ==
    IF data_size[self] = 0 THEN <<>>
    ELSE IF subtrees[self] = <<>> THEN <<self>>
    ELSE extend_leaves(self, 1)

extend_leaves(self, i) ==
    IF i > Len(subtrees[self]) THEN <<>>
    ELSE list_leaves(subtrees[self][i]) \o extend_leaves(self, i + 1)

\* InRange with the far edges left out
InRange_half_open(position, rect) ==
    /\ rect[1] <= position[1] /\ position[1] < rect[1] + rect[3]
    /\ rect[2] <= position[2] /\ position[2] < rect[2] + rect[4]

\* the test of get_leaf's second loop: position within the range of a leaf
InRange(position, rect) ==
    /\ rect[1] <= position[1] /\ position[1] <= rect[1] + rect[3]
    /\ rect[2] <= position[2] /\ position[2] <= rect[2] + rect[4]

(***************************************************************************)
(* get_leaf.  The dictionary is keyed by the leaves, which are distinct    *)
(* objects, and is iterated in insertion order: the first leaf whose range *)
(* holds the position is returned, None when the loop falls through.       *)
(* treemap[i] beyond the end of the layout raises IndexError, a result    *)
(* that is no node and not None.                                           *)
(***************************************************************************)
IndexError == 0 - 1

get_leaf(self, position, layout) ==
    IF layout = <<>> THEN None
    ELSE LET files == list_leaves(self)
         IN  IF Len(files) > Len(layout) THEN IndexError
             ELSE LET hits == { i \in 1 .. Len(files) :
                                  InRange(position, layout[i][1]) }
                  IN  IF hits = {} THEN None
                      ELSE files[CHOOSE i \in hits : \A j \in hits : i <= j]

-----------------------------------------------------------------------------
(* pygame events, as far as event_loop reads them. *)

\* the positions of the mouse that are enumerated: inside the treemap, on its
\* far edges, and in the text display below it
Positions == { <<0, 0>>, <<400, 300>>, <<700, 700>>, <<1023, 750>> }

Event(type, pos, button, key) ==
    [type |-> type, pos |-> pos, button |-> button, key |-> key]

NoEvent == Event("NOEVENT", <<0, 0>>, 0, "")
Quit == Event("QUIT", <<0, 0>>, 0, "")
MouseEvents == { Event("MOUSEBUTTONUP", pos, button, "") :
                   pos \in Positions, button \in {1, 2, 3} }
KeyEvents == { Event("KEYUP", <<0, 0>>, 0, key) :
                 key \in {"K_UP", "K_DOWN", "K_a"} }
Events == {NoEvent, Quit} \cup MouseEvents \cup KeyEvents

-----------------------------------------------------------------------------
(* AbstractTree: construction and mutation. *)

Init ==
    /\ root = <<>>
    /\ subtrees = <<>>
    /\ parent_tree = <<>>
    /\ data_size = <<>>
    /\ colour = <<>>
    /\ tree = None
    /\ treemap = <<>>
    /\ ops = 0
    /\ pc = "build"
    /\ event = NoEvent
    /\ selected_leaf = None

\* the trees that are not part of a larger tree
Parentless == { n \in Nodes : parent_tree[n] = None }

(***************************************************************************)
(* AbstractTree.__init__(root, subtrees, data_size), with the colour that  *)
(* the randint calls draw.                                                 *)
(***************************************************************************)
AbstractTree_init(new_root, new_subtrees, new_size, new_colour) ==
    LET self == Len(root) + 1
    IN  /\ root' = Append(root, new_root)
        /\ subtrees' = Append(subtrees, new_subtrees)
        /\ colour' = Append(colour, new_colour)
        /\ data_size' = Append(data_size,
                               IF new_subtrees = <<>> THEN new_size
                               ELSE SumSizes(data_size, new_subtrees))
        /\ parent_tree' = [ n \in 1 .. self |->
                              IF n = self THEN None
                              ELSE IF n \in Range(new_subtrees) THEN self
                              ELSE parent_tree[n] ]

(***************************************************************************)
(* The loaders (FileSystemTree.__init__, _load_data) build a tree in post  *)
(* order: the subtrees of a new tree are the trees built last, in the      *)
(* order they were built, none of them part of a larger tree yet.          *)
(***************************************************************************)
SubtreeLists ==
    { SortedSeq({ n \in Parentless : n >= lo }) : lo \in 1 .. Len(root) + 1 }

Construct ==
    /\ pc = "build"
    /\ Len(root) < MaxNodes
    /\ \E new_root \in Names, new_subtrees \in SubtreeLists,
          new_size \in LeafSizes, new_colour \in Colours :
          AbstractTree_init(new_root, new_subtrees, new_size, new_colour)
    /\ UNCHANGED <<tree, treemap, ops, pc, event, selected_leaf>>

\* delete_sizes with a walk that stops at the parent
delete_sizes_parent_only(self) ==
    IF ~ is_empty(self)
      THEN LET size == data_size[self]
           IN  [ n \in Nodes |->
                   IF n = self THEN 0
                   ELSE IF n = parent_tree[self] THEN data_size[n] - size
                   ELSE data_size[n] ]
      ELSE data_size

\* delete: the data sizes after self.delete()
delete_sizes(self) ==
    IF ~ is_empty(self)
      THEN LET size == data_size[self]
           IN  [ n \in Nodes |->
                   IF n = self THEN 0
                   ELSE IF n \in Ancestors(self) THEN data_size[n] - size
                   ELSE data_size[n] ]
      ELSE data_size

\* delete_roots that leaves the root value of the leaf in place
delete_roots_kept(self) == root

\* delete: the root values after self.delete()
delete_roots(self) ==
    IF ~ is_empty(self) THEN [root EXCEPT ![self] = NoRoot] ELSE root

\* change_size_sizes with the guard self.data_size - value >= 0
change_size_sizes_to_zero(self, symbol) ==
    LET value == CeilPercent(data_size[self])
    IN  IF symbol = "+"
          THEN [ n \in Nodes |->
                   IF n = self \/ n \in Ancestors(self)
                     THEN data_size[n] + value ELSE data_size[n] ]
        ELSE IF symbol = "-" /\ data_size[self] - value >= 0
          THEN [ n \in Nodes |->
                   IF n = self \/ n \in Ancestors(self)
                     THEN data_size[n] - value ELSE data_size[n] ]
        ELSE data_size

\* change_size: the data sizes after self.change_size(symbol)
change_size_sizes(self, symbol) ==
    LET value == CeilPercent(data_size[self])
    IN  IF symbol = "+"
          THEN [ n \in Nodes |->
                   IF n = self \/ n \in Ancestors(self)
                     THEN data_size[n] + value ELSE data_size[n] ]
        ELSE IF symbol = "-" /\ data_size[self] - value > 0
          THEN [ n \in Nodes |->
                   IF n = self \/ n \in Ancestors(self)
                     THEN data_size[n] - value ELSE data_size[n] ]
        ELSE data_size

\* the leaves: the trees delete and change_size may be called on
Leaves == { n \in Nodes : subtrees[n] = <<>> }

\* a client takes the constructed tree t, the one tree that holds every node
\* that was built, and starts calling the operations
UseTree(t) ==
    /\ pc = "build"
    /\ Parentless = {t}
    /\ tree' = t
    /\ pc' = "api"
    /\ UNCHANGED <<heap, treemap, ops, event, selected_leaf>>

Delete(self) ==
    /\ pc = "api"
    /\ ops < MaxOps
    /\ self \in Leaves
    /\ data_size' = delete_sizes(self)
    /\ root' = delete_roots(self)
    /\ ops' = ops + 1
    /\ UNCHANGED <<subtrees, parent_tree, colour, tree, treemap, pc,
                   event, selected_leaf>>

ChangeSize(self, symbol) ==
    /\ pc = "api"
    /\ ops < MaxOps
    /\ self \in Leaves
    /\ data_size' = change_size_sizes(self, symbol)
    /\ ops' = ops + 1
    /\ UNCHANGED <<root, subtrees, parent_tree, colour, tree, treemap,
                   pc, event, selected_leaf>>

\* the rectangles generate_treemap is examined on
Rects == { <<x, y, w, h>> : x \in {0}, y \in {0},
                            w \in 0 .. MaxSide, h \in 0 .. MaxSide }

\* Screen dimensions of treemap_visualiser.py
WIDTH == 1024
HEIGHT == 768
FONT_HEIGHT == 30
TREEMAP_HEIGHT == HEIGHT - FONT_HEIGHT

\* the rectangle the visualiser lays the tree out in
ScreenRect == <<0, 0, WIDTH, TREEMAP_HEIGHT>>

\* the client computes the layout of its tree and keeps it
GenerateTreemap ==
    /\ pc = "api"
    /\ treemap' = generate_treemap(tree, ScreenRect)
    /\ UNCHANGED <<heap, tree, ops, pc, event, selected_leaf>>

\* a client that constructs a tree and calls delete and change_size on its
\* leaves
Next ==
    \/ Construct
    \/ \E t \in Nodes : UseTree(t)
    \/ \E self \in Nodes : Delete(self)
    \/ \E self \in Nodes, symbol \in {"+", "-"} : ChangeSize(self, symbol)

Spec == Init /\ [][Next]_vars

\* a client that also keeps a layout while it goes on calling delete and
\* change_size
NextStale ==
    \/ Construct
    \/ \E t \in Nodes : UseTree(t)
    \/ \E self \in Nodes : Delete(self)
    \/ \E self \in Nodes, symbol \in {"+", "-"} : ChangeSize(self, symbol)
    \/ GenerateTreemap

SpecStale == Init /\ [][NextStale]_vars

-----------------------------------------------------------------------------
(* treemap_visualiser.py *)

\* run_visualisation(tree), on the tree a loader has built: event_loop starts
\* with nothing selected
run_visualisation(t) ==
    /\ pc = "build"
    /\ Parentless = {t}
    /\ tree' = t
    /\ selected_leaf' = None
    /\ pc' = "poll"
    /\ UNCHANGED <<heap, treemap, ops, event>>

\* an event that may end in a call of delete or change_size
Mutating(ev) ==
    \/ ev.type = "MOUSEBUTTONUP" /\ ev.button = 3
    \/ ev.type = "KEYUP" /\ ev.key \in {"K_UP", "K_DOWN"}

(***************************************************************************)
(* event_loop, from the top of an iteration to the layout: an event is     *)
(* polled, QUIT returns, and otherwise the treemap of the tree as it is    *)
(* now is generated.                                                       *)
(***************************************************************************)
event_loop_poll ==
    /\ pc = "poll"
    /\ \E ev \in Events :
          /\ Mutating(ev) => ops < MaxOps
          /\ event' = ev
          /\ ops' = IF Mutating(ev) THEN ops + 1 ELSE ops
          /\ IF ev.type = "QUIT"
               THEN pc' = "done" /\ UNCHANGED treemap
               ELSE /\ pc' = "handle"
                    /\ treemap' = generate_treemap(tree, ScreenRect)
    /\ UNCHANGED <<heap, tree, selected_leaf>>

\* event_loop_handle without the reset of selected_leaf after
\* selected_leaf.delete()
event_loop_handle_keeps_selection ==
    /\ pc = "handle"
    /\ pc' = "poll"
    /\ LET clicked == get_leaf(tree, event.pos, treemap)
       IN  IF event.type = "MOUSEBUTTONUP" /\ clicked # None
             THEN IF clicked # selected_leaf /\ event.button = 1
                    THEN /\ selected_leaf' = clicked
                         /\ UNCHANGED <<root, data_size>>
                  ELSE IF clicked = selected_leaf /\ event.button = 1
                    THEN /\ selected_leaf' = None
                         /\ UNCHANGED <<root, data_size>>
                  ELSE IF clicked # selected_leaf /\ event.button = 3
                    THEN /\ data_size' = delete_sizes(clicked)
                         /\ root' = delete_roots(clicked)
                         /\ UNCHANGED selected_leaf
                  ELSE IF clicked = selected_leaf /\ event.button = 3
                    THEN /\ data_size' = delete_sizes(selected_leaf)
                         /\ root' = delete_roots(selected_leaf)
                         /\ UNCHANGED selected_leaf
                  ELSE UNCHANGED <<root, data_size, selected_leaf>>
           ELSE IF event.type = "KEYUP" /\ selected_leaf # None
             THEN /\ data_size' =
                       IF event.key = "K_UP"
                         THEN change_size_sizes(selected_leaf, "+")
                       ELSE IF event.key = "K_DOWN"
                         THEN change_size_sizes(selected_leaf, "-")
                       ELSE data_size
                  /\ UNCHANGED <<root, selected_leaf>>
           ELSE UNCHANGED <<root, data_size, selected_leaf>>
    /\ event' = NoEvent
    /\ treemap' = <<>>
    /\ UNCHANGED <<subtrees, parent_tree, colour, tree, ops>>

(***************************************************************************)
(* event_loop, the rest of the iteration: the MOUSEBUTTONUP branch and the *)
(* KEYUP branch (an event is one or the other).  path and size, the text   *)
(* on display, and the drawing of render_display are not part of the       *)
(* state.  The locals event and treemap are dead at the top of the next    *)
(* iteration, where both are assigned before they are read: they are       *)
(* cleared, so that states differ only in what the loop can still read.    *)
(***************************************************************************)
event_loop_handle ==
    /\ pc = "handle"
    /\ pc' = "poll"
    /\ LET clicked == get_leaf(tree, event.pos, treemap)
       IN  IF event.type = "MOUSEBUTTONUP" /\ clicked # None
             THEN IF clicked # selected_leaf /\ event.button = 1
                    THEN /\ selected_leaf' = clicked
                         /\ UNCHANGED <<root, data_size>>
                  ELSE IF clicked = selected_leaf /\ event.button = 1
                    THEN /\ selected_leaf' = None
                         /\ UNCHANGED <<root, data_size>>
                  ELSE IF clicked # selected_leaf /\ event.button = 3
                    THEN /\ data_size' = delete_sizes(clicked)
                         /\ root' = delete_roots(clicked)
                         /\ UNCHANGED selected_leaf
                  ELSE IF clicked = selected_leaf /\ event.button = 3
                    THEN /\ data_size' = delete_sizes(selected_leaf)
                         /\ root' = delete_roots(selected_leaf)
                         /\ selected_leaf' = None
                  ELSE UNCHANGED <<root, data_size, selected_leaf>>
           ELSE IF event.type = "KEYUP" /\ selected_leaf # None
             THEN /\ data_size' =
                       IF event.key = "K_UP"
                         THEN change_size_sizes(selected_leaf, "+")
                       ELSE IF event.key = "K_DOWN"
                         THEN change_size_sizes(selected_leaf, "-")
                       ELSE data_size
                  /\ UNCHANGED <<root, selected_leaf>>
           ELSE UNCHANGED <<root, data_size, selected_leaf>>
    /\ event' = NoEvent
    /\ treemap' = <<>>
    /\ UNCHANGED <<subtrees, parent_tree, colour, tree, ops>>

NextLoop ==
    \/ Construct
    \/ \E t \in Nodes : run_visualisation(t)
    \/ event_loop_poll
    \/ event_loop_handle

SpecLoop == Init /\ [][NextLoop]_vars

-----------------------------------------------------------------------------
(* The scenario tree: World with Asia [China(100), India(90)] and Europe   *)
(* [France(10)], built in post order by the constructor.                   *)

ScenarioArgs ==
    << <<"China", <<>>, 100>>, <<"India", <<>>, 90>>, <<"Asia", <<1, 2>>, 0>>,
       <<"France", <<>>, 10>>, <<"Europe", <<4>>, 0>>,
       <<"World", <<3, 5>>, 0>> >>

ScenarioRect == <<0, 0, 200, 100>>

ScenarioConstruct ==
    /\ pc = "build"
    /\ Len(root) < Len(ScenarioArgs)
    /\ LET args == ScenarioArgs[Len(root) + 1]
       IN  \E new_colour \in Colours :
              AbstractTree_init(args[1], args[2], args[3], new_colour)
    /\ UNCHANGED <<tree, treemap, ops, pc, event, selected_leaf>>

ScenarioUse ==
    /\ Len(root) = Len(ScenarioArgs)
    /\ UseTree(Len(root))

NextScenario ==
    \/ ScenarioConstruct
    \/ ScenarioUse
    \/ \E self \in Nodes : Delete(self)
    \/ \E self \in Nodes, symbol \in {"+", "-"} : ChangeSize(self, symbol)

SpecScenario == Init /\ [][NextScenario]_vars

-----------------------------------------------------------------------------
(* Vocabulary of the properties. *)

\* the nodes of the tree below and including t
Descendants(t) == { n \in Nodes : n = t \/ t \in Ancestors(n) }

\* the unit cell at (cx, cy) lies in rect
CellIn(rect, cx, cy) ==
    /\ rect[1] <= cx /\ cx < rect[1] + rect[3]
    /\ rect[2] <= cy /\ cy < rect[2] + rect[4]

RECURSIVE AreaSum(_)
AreaSum(layout) ==
    IF layout = <<>> THEN 0
    ELSE Head(layout)[1][3] * Head(layout)[1][4] + AreaSum(Tail(layout))

\* the rectangles of layout partition rect: each lies within rect, each unit
\* cell of rect lies in exactly one of them, and the areas add up
ExactPartition(layout, rect) ==
    /\ \A i \in 1 .. Len(layout) :
          LET r == layout[i][1]
          IN  /\ r[3] >= 0 /\ r[4] >= 0
              /\ rect[1] <= r[1] /\ r[1] + r[3] <= rect[1] + rect[3]
              /\ rect[2] <= r[2] /\ r[2] + r[4] <= rect[2] + rect[4]
    /\ \A cx \in rect[1] .. rect[1] + rect[3] - 1,
          cy \in rect[2] .. rect[2] + rect[4] - 1 :
          Cardinality({ i \in 1 .. Len(layout) :
                          CellIn(layout[i][1], cx, cy) }) = 1
    /\ AreaSum(layout) = rect[3] * rect[4]

\* a is a subsequence of b
RECURSIVE IsSubseq(_, _)
IsSubseq(a, b) ==
    IF a = <<>> THEN TRUE
    ELSE IF b = <<>> THEN FALSE
    ELSE IF Head(a) = Head(b) THEN IsSubseq(Tail(a), Tail(b))
    ELSE IsSubseq(a, Tail(b))

-----------------------------------------------------------------------------
(* Properties. *)

(***************************************************************************)
(* C1.  Weight invariant: on any tree the constructor built, after any     *)
(* sequence of delete and change_size calls on leaves, every node with a   *)
(* non-empty subtree list has a data_size equal to the sum of the          *)
(* data_size of its subtrees, and every data_size is >= 0.                 *)
(***************************************************************************)
C1_WeightInvariant ==
    \A n \in Nodes :
       /\ data_size[n] >= 0
       /\ subtrees[n] # <<>> =>
             data_size[n] = SumSizes(data_size, subtrees[n])

\* a leaf two levels down was deleted and another leaf was resized
C1_Witness ==
    /\ ops = MaxOps
    /\ \E d \in Leaves, l \in Leaves :
          /\ is_empty(d)
          /\ parent_tree[d] # None /\ parent_tree[parent_tree[d]] # None
          /\ data_size[l] \in {2, 99, 101}
          /\ parent_tree[l] # None

(***************************************************************************)
(* C2.  Empty-tree invariant: every node whose root value is absent has no *)
(* subtrees, no parent (_parent_tree is None) and data_size 0 -- also a    *)
(* leaf that was deleted while it sits under a parent.                     *)
(***************************************************************************)
C2_EmptyTreeInvariant ==
    \A n \in Nodes :
       is_empty(n) =>
          /\ subtrees[n] = <<>>
          /\ parent_tree[n] = None
          /\ data_size[n] = 0

(***************************************************************************)
(* C3.  Tiling exactness: for every tree with data_size > 0 and every      *)
(* rectangle with non-negative integer sides, the rectangles of            *)
(* generate_treemap partition the rectangle exactly.                       *)
(***************************************************************************)
C3_TilingExact ==
    \A t \in Nodes, rect \in Rects :
       data_size[t] > 0 => ExactPartition(generate_treemap(t, rect), rect)

\* generate_treemap leaves a strip of the rectangle uncovered: the last
\* subtree of a tree with data_size > 0 has data_size 0
C3_Gap ==
    \E t \in Nodes :
       /\ data_size[t] > 0
       /\ subtrees[t] # <<>>
       /\ data_size[subtrees[t][Len(subtrees[t])]] = 0
       /\ AreaSum(generate_treemap(t, <<0, 0, MaxSide, 1>>)) < MaxSide

(***************************************************************************)
(* C4.  Leaf/layout correspondence: for every tree and rectangle,          *)
(* generate_treemap and list_leaves have the same length, the i-th layout  *)
(* entry carries the colour of the i-th leaf, and list_leaves holds, from  *)
(* left to right, exactly the childless nodes with data_size > 0 that have *)
(* no zero-weight ancestor-or-self in the tree.  (Trees are built in post  *)
(* order, so left to right is increasing node number.)                     *)
(***************************************************************************)
C4_LeafLayoutCorrespondence ==
    \A t \in Nodes :
       LET files == list_leaves(t)
           shown == { n \in Descendants(t) :
                        /\ subtrees[n] = <<>>
                        /\ data_size[n] > 0
                        /\ \A a \in Descendants(t) :
                              n \in Descendants(a) => data_size[a] > 0 }
       IN  /\ files = SortedSeq(shown)
           /\ \A rect \in Rects :
                 LET layout == generate_treemap(t, rect)
                 IN  /\ Len(layout) = Len(files)
                     /\ \A i \in 1 .. Len(layout) :
                           layout[i][2] = colour[files[i]]

\* a tree with two leaves of different colours on display and, to their
\* left, a leaf that was deleted
C4_Witness ==
    /\ pc = "api"
    /\ Len(list_leaves(tree)) = 2
    /\ colour[list_leaves(tree)[1]] # colour[list_leaves(tree)[2]]
    /\ \E d \in Descendants(tree) :
          is_empty(d) /\ d < list_leaves(tree)[1]

(***************************************************************************)
(* C5.  Delete exactness and idempotence: delete on a non-empty leaf of    *)
(* data_size W sets its data_size to 0 and its root value to absent and    *)
(* takes exactly W off every ancestor, and nothing off any other node;     *)
(* delete on an empty leaf changes no data_size.                           *)
(***************************************************************************)
C5_DeleteExact ==
    [][ \A self \in Nodes :
           Delete(self) =>
              IF root[self] # NoRoot
                THEN /\ data_size'[self] = 0
                     /\ root'[self] = NoRoot
                     /\ \A n \in Nodes \ {self} :
                           data_size'[n] =
                              IF n \in Ancestors(self)
                                THEN data_size[n] - data_size[self]
                                ELSE data_size[n]
                ELSE data_size' = data_size /\ root' = root ]_vars

\* a leaf two levels down has been deleted, its ancestors keep the weight of
\* the other leaves, and another call was made since the tree was built
C5_Witness ==
    /\ pc = "api"
    /\ ops = 2
    /\ data_size[tree] > 0
    /\ \E d \in Leaves :
          /\ is_empty(d)
          /\ parent_tree[d] # None /\ parent_tree[parent_tree[d]] = tree

(***************************************************************************)
(* C6.  ChangeSize guard: with delta the ceiling of w/100 for the leaf's   *)
(* data_size w, change_size('-') takes delta off the leaf and every        *)
(* ancestor when w - delta > 0 and changes no data_size otherwise;         *)
(* change_size('+') adds delta to the leaf and every ancestor.  A leaf of  *)
(* data_size >= 1 stays >= 1; at w = 1 a decrease changes nothing; at      *)
(* w = 100 a decrease gives 99 and an increase 101.                        *)
(***************************************************************************)
C6_ChangeSizeGuard ==
    [][ \A self \in Nodes, symbol \in {"+", "-"} :
           ChangeSize(self, symbol) =>
              LET w == data_size[self]
                  delta == CHOOSE d \in 0 .. w :
                              100 * d >= w /\ 100 * (d - 1) < w
                  chain == {self} \cup Ancestors(self)
                  applied == IF symbol = "+" THEN delta
                             ELSE IF w - delta > 0 THEN 0 - delta
                             ELSE 0
              IN  /\ \A n \in Nodes :
                        data_size'[n] = IF n \in chain
                                          THEN data_size[n] + applied
                                          ELSE data_size[n]
                  /\ w >= 1 => data_size'[self] >= 1
                  /\ w = 1 /\ symbol = "-" => data_size' = data_size
                  /\ w = 100 /\ symbol = "-" => data_size'[self] = 99
                  /\ w = 100 /\ symbol = "+" => data_size'[self] = 101 ]_vars

\* a leaf under a parent went from 100 to 101 and on to 103 (delta 2)
C6_Witness ==
    \E l \in Leaves :
       /\ data_size[l] = 103
       /\ parent_tree[l] # None
       /\ data_size[parent_tree[l]] >= 103

(***************************************************************************)
(* C7.  Scenario, as the specification states it: World with Asia          *)
(* [China(100), India(90)] and Europe [France(10)] in (0, 0, 200, 100):    *)
(* Asia gets the strip x in [0, 100) and Europe, the last subtree, the     *)
(* remainder x in [100, 200).                                              *)
(***************************************************************************)
IsScenario ==
    /\ Len(root) = Len(ScenarioArgs)
    /\ data_size = <<100, 90, 190, 10, 10, 200>>

C7_ScenarioAsStated ==
    IsScenario =>
       subtree_rects(6, ScenarioRect)
          = << <<0, 0, 100, 100>>, <<100, 0, 100, 100>> >>

(***************************************************************************)
(* C7, amended.  In the scenario Asia (data_size 190 of 200) gets the      *)
(* strip x in [0, 190), and Europe the remainder x in [190, 200) of width  *)
(* 10; the layout is China (0,0,100,100), India (100,0,90,100), France     *)
(* (190,0,10,100).                                                         *)
(***************************************************************************)
C7_Scenario ==
    IsScenario =>
       /\ subtree_rects(6, ScenarioRect)
             = << <<0, 0, 190, 100>>, <<190, 0, 10, 100>> >>
       /\ generate_treemap(6, ScenarioRect)
             = << << <<0, 0, 100, 100>>, colour[1] >>,
                  << <<100, 0, 90, 100>>, colour[2] >>,
                  << <<190, 0, 10, 100>>, colour[4] >> >>

\* the scenario tree is built and in use
C7_Witness ==
    /\ IsScenario
    /\ pc = "api"
    /\ tree = 6
    /\ Len(generate_treemap(tree, ScenarioRect)) = 3

(***************************************************************************)
(* C8.  Hit-test: with the layout generate_treemap has just produced for   *)
(* the tree, get_leaf returns a leaf only if the rectangle (x, y, w, h)    *)
(* paired with it by position has x <= px <= x+w and y <= py <= y+h, and   *)
(* returns None exactly when no paired rectangle holds the point or the    *)
(* layout is empty.                                                        *)
(***************************************************************************)
\* the points in, on the edges of, and one step beyond the far edges of rect
Points(rect) ==
    { <<px, py>> : px \in rect[1] .. rect[1] + rect[3] + 1,
                   py \in rect[2] .. rect[2] + rect[4] + 1 }

C8_HitTest ==
    pc = "api" =>
       \A rect \in Rects :
          LET layout == generate_treemap(tree, rect)
              files == list_leaves(tree)
          IN  \A p \in Points(rect) :
                 LET leaf == get_leaf(tree, p, layout)
                     holds(i) ==
                        /\ layout[i][1][1] <= p[1]
                        /\ p[1] <= layout[i][1][1] + layout[i][1][3]
                        /\ layout[i][1][2] <= p[2]
                        /\ p[2] <= layout[i][1][2] + layout[i][1][4]
                 IN  /\ leaf # IndexError
                     /\ leaf # None =>
                           \E i \in 1 .. Len(files) :
                              files[i] = leaf /\ holds(i)
                     /\ leaf = None <=>
                           \/ layout = <<>>
                           \/ \A i \in 1 .. Len(layout) : ~ holds(i)

\* the tree in use shows two leaves, one of data_size 0 sits between or
\* beside them, and both a hit and a miss occur on one layout
C8_Witness ==
    /\ pc = "api"
    /\ Len(list_leaves(tree)) = 2
    /\ \E z \in Leaves : data_size[z] = 0
    /\ \E rect \in Rects :
          LET layout == generate_treemap(tree, rect)
          IN  \E p \in Points(rect), q \in Points(rect) :
                 /\ get_leaf(tree, p, layout) = list_leaves(tree)[2]
                 /\ get_leaf(tree, q, layout) = None

(***************************************************************************)
(* C9.  Leaf-set monotonicity: over delete and change_size calls on        *)
(* leaves, list_leaves after a call is a subsequence of list_leaves before *)
(* it (a deleted leaf never comes back, and change_size removes no leaf);  *)
(* so a layout computed earlier is never shorter than list_leaves now, and *)
(* get_leaf's treemap[i] stays in range on a stale layout.                 *)
(***************************************************************************)
C9_LeafSetMonotone ==
    [][ /\ \A t \in Nodes : IsSubseq(list_leaves(t)', list_leaves(t))
        /\ pc' = "api" =>
              /\ treemap' # <<>> => Len(list_leaves(tree))' <= Len(treemap')
              /\ \A p \in Positions :
                    get_leaf(tree, p, treemap)' # IndexError ]_vars

\* the layout in hand is stale: a leaf it shows has been deleted since and
\* change_size was called
C9_Witness ==
    /\ pc = "api"
    /\ ops = 2
    /\ treemap # <<>>
    /\ Len(list_leaves(tree)) < Len(treemap)
    /\ list_leaves(tree) # <<>>
    /\ \E d \in Leaves : is_empty(d)

(***************************************************************************)
(* C10.  Event-loop selection invariant: at the top of each iteration      *)
(* selected_leaf is None or a childless, non-empty node with data_size >   *)
(* 0; the loop calls delete and change_size only on non-empty leaves; and  *)
(* get_leaf is called with the layout of the tree as it is.                *)
(***************************************************************************)
LiveLeaf(n) ==
    /\ n \in Nodes
    /\ subtrees[n] = <<>>
    /\ root[n] # NoRoot
    /\ data_size[n] > 0

C10_SelectionInvariant ==
    /\ pc = "poll" => selected_leaf = None \/ LiveLeaf(selected_leaf)
    /\ pc = "handle" =>
          LET clicked == get_leaf(tree, event.pos, treemap)
          IN  /\ treemap = generate_treemap(tree, ScreenRect)
              /\ clicked # IndexError
              /\ ( /\ event.type = "MOUSEBUTTONUP"
                   /\ clicked # None
                   /\ event.button = 3 ) => LiveLeaf(clicked)
              /\ ( /\ event.type = "KEYUP"
                   /\ selected_leaf # None
                   /\ event.key \in {"K_UP", "K_DOWN"} )
                    => LiveLeaf(selected_leaf)

\* at the top of an iteration a leaf is selected that was resized, after
\* another leaf was deleted by a click
C10_Witness ==
    /\ pc = "poll"
    /\ selected_leaf # None
    /\ data_size[selected_leaf] \in {2, 99, 101}
    /\ \E d \in Nodes : is_empty(d)

(***************************************************************************)
(* C11.  Layout containment: for every tree (they all satisfy the weight   *)
(* invariant, with zero-weight subtrees in any position) and every         *)
(* rectangle R with non-negative integer sides, every rectangle of         *)
(* generate_treemap(R) has non-negative width and height and lies inside   *)
(* R, and the rectangles of distinct leaves have disjoint interiors; the   *)
(* rectangle handed to each subtree, the remainder of the last one         *)
(* included, has a non-negative extent and ends no further than R.         *)
(***************************************************************************)
Inside(r, rect) ==
    /\ r[3] >= 0 /\ r[4] >= 0
    /\ rect[1] <= r[1] /\ r[1] + r[3] <= rect[1] + rect[3]
    /\ rect[2] <= r[2] /\ r[2] + r[4] <= rect[2] + rect[4]

InteriorsDisjoint(r, q) ==
    \/ r[3] = 0 \/ r[4] = 0 \/ q[3] = 0 \/ q[4] = 0
    \/ r[1] + r[3] <= q[1] \/ q[1] + q[3] <= r[1]
    \/ r[2] + r[4] <= q[2] \/ q[2] + q[4] <= r[2]

C11_LayoutContainment ==
    \A t \in Nodes, rect \in Rects \cup {ScreenRect} :
       LET layout == generate_treemap(t, rect)
       IN  /\ \A i \in 1 .. Len(layout) : Inside(layout[i][1], rect)
           /\ \A i \in 1 .. Len(layout), j \in 1 .. Len(layout) :
                 i < j => InteriorsDisjoint(layout[i][1], layout[j][1])
           /\ data_size[t] > 0 /\ subtrees[t] # <<>> =>
                 LET strips == subtree_rects(t, rect)
                 IN  \A i \in 1 .. Len(strips) : Inside(strips[i], rect)

\* a tree of three subtrees, the middle one deleted and of weight 0, the
\* first and the last of different weights: the first gets the floor of its
\* share of the side and the last the remainder
C11_Witness ==
    \E t \in Nodes :
       /\ Len(subtrees[t]) = 3
       /\ data_size[t] > 0
       /\ data_size[subtrees[t][2]] = 0
       /\ data_size[subtrees[t][1]] > 0
       /\ data_size[subtrees[t][3]] > 0
       /\ data_size[subtrees[t][1]] # data_size[subtrees[t][3]]
       /\ is_empty(subtrees[t][2])
       /\ Len(generate_treemap(t, <<0, 0, MaxSide, 1>>)) = 2

====
